---- MODULE Spec2Model ----
(***************************************************************************)
(* A model of bun-sqlite-cache (src/src/index.ts): the BunSQLiteCache      *)
(* class over its SQLite table `cache`, with the periodic sweep timer and  *)
(* the setImmediate sweeps queued by set.                                  *)
(*                                                                         *)
(* JavaScript runs every handler to completion, so each public method and  *)
(* each run of checkForExpiredItems is one atomic action.  The wall clock  *)
(* (Date.now) advances between them, and between the two reads set makes.  *)
(***************************************************************************)
EXTENDS Integers, Sequences, FiniteSets, TLC

(***************************************************************************)
(* Bounds of the model.                                                    *)
(***************************************************************************)
MaxTime == 2
MaxPending == 2

(***************************************************************************)
(* JavaScript values, tagged with what typeof reports.                     *)
(***************************************************************************)
Undefined == [type |-> "undefined", val |-> 0]
Num(n)    == [type |-> "number", val |-> n]
Str(s)    == [type |-> "string", val |-> s]
Bool(b)   == [type |-> "boolean", val |-> b]
Obj(v)    == [type |-> "object", val |-> v]

TypeOf(x) == x.type

\* ToBoolean: undefined, 0, "" and false are falsy, every other value is truthy
Truthy(x) ==
    CASE x.type = "undefined" -> FALSE
      [] x.type = "number"    -> x.val # 0
      [] x.type = "string"    -> x.val # ""
      [] x.type = "boolean"   -> x.val
      [] OTHER                -> TRUE

\* a ?? b
Coalesce(a, b) == IF a.type = "undefined" THEN b ELSE a

(***************************************************************************)
(* parseConfig (index.ts 62-87).  The four checks run in source order and  *)
(* push the quoted field name; the error message is                        *)
(* `Invalid ${errors.join(",")} configuration`, kept here as the list.     *)
(***************************************************************************)
BadField(x, t) == Truthy(x) /\ TypeOf(x) # t

ConfigErrors(rawConfig) ==
    (IF BadField(rawConfig.database, "string") THEN <<"'database'">> ELSE <<>>)
    \o (IF BadField(rawConfig.defaultTtlMs, "number") THEN <<"'defaultTtlMs'">> ELSE <<>>)
    \o (IF BadField(rawConfig.maxItems, "number") THEN <<"'maxItems'">> ELSE <<>>)
    \o (IF BadField(rawConfig.compress, "boolean") THEN <<"'compress'">> ELSE <<>>)

InvalidConfiguration(errors) == [name |-> "Invalid configuration", fields |-> errors]

parseConfig(rawConfig) ==
    LET errors == ConfigErrors(rawConfig) IN
    IF Len(errors) > 0
    THEN [threw |-> TRUE, error |-> InvalidConfiguration(errors), config |-> rawConfig]
    ELSE [threw |-> FALSE, error |-> InvalidConfiguration(<<>>),
          config |-> [database     |-> Coalesce(rawConfig.database, Str(":memory:")),
                      defaultTtlMs |-> rawConfig.defaultTtlMs,
                      maxItems     |-> rawConfig.maxItems,
                      compress     |-> rawConfig.compress]]

(***************************************************************************)
(* Values handed to set, and the byte buffers made from them.  A value is  *)
(* known by its name; what matters of its bytes is how long v8.serialize   *)
(* makes them and how long gzip makes that.                                *)
(***************************************************************************)
SerializedLength(v) ==
    CASE v = "tiny"  -> 100
      [] v = "below" -> 1023
      [] v = "edge"  -> 1024
      [] v = "same"  -> 1500
      [] v = "grows" -> 2000
      [] v = "big"   -> 90000
      [] OTHER       -> 0

GzipLength(v) ==
    CASE v = "tiny"  -> 120
      [] v = "below" -> 400
      [] v = "edge"  -> 1023
      [] v = "same"  -> 1500
      [] v = "grows" -> 2020
      [] v = "big"   -> 40000
      [] OTHER       -> 20

COMPRESSION_MIN_LENGTH == 1024

serialize(v) == [enc |-> "v8", of |-> v]
gzipSync(buf) == [enc |-> "gzip", of |-> buf.of]
ByteLength(buf) ==
    IF buf.enc = "gzip" THEN GzipLength(buf.of) ELSE SerializedLength(buf.of)

\* gunzipSync and deserialize throw on bytes that are not in their format
gunzipSync(buf) ==
    IF buf.enc = "gzip" THEN [threw |-> FALSE, buf |-> [enc |-> "v8", of |-> buf.of]]
                        ELSE [threw |-> TRUE, buf |-> buf]
deserialize(buf) ==
    IF buf.enc = "v8" THEN [threw |-> FALSE, value |-> Obj(buf.of)]
                      ELSE [threw |-> TRUE, value |-> Undefined]

(***************************************************************************)
(* The table `cache` (index.ts 20-26): key -> (value, expires, lastAccess, *)
(* compressed).  NULL is SQL NULL; a comparison with NULL is not true.     *)
(***************************************************************************)
NULL == -1
SqlLess(a, b) == a # NULL /\ b # NULL /\ a < b
SqlGreater(a, b) == a # NULL /\ b # NULL /\ a > b

Keys == {"k1", "k2", "k3"}

Row(value, expires, lastAccess, compressed) ==
    [value |-> value, expires |-> expires, lastAccess |-> lastAccess,
     compressed |-> compressed]

Restrict(table, keep) == [k \in keep |-> table[k]]

VARIABLES
    instance,       \* "none" before the constructor ran, then "live" or "failed"
    configuration,  \* this.configuration: the raw bag, then what parseConfig returned
    cache,          \* the rows of the table, a function from the stored keys
    isClosed,       \* this.isClosed
    checkInterval,  \* this.checkInterval: "none", "active" or "cleared"
    pending,        \* setImmediate callbacks queued by set and not run yet
    now,            \* Date.now()
    lastOp,         \* the last call: what it returned or threw, the statements it ran
    lastSet         \* history: per key, the last set that returned true and was not
                    \* followed by delete(key) or clear(): its value, its deadline
                    \* and the compress option it was called with

vars == <<instance, configuration, cache, isClosed, checkInterval, pending, now,
          lastOp, lastSet>>

\* status: "return" or "throw"; ret: the value returned or the error thrown;
\* calls: the statements run on the database; failed: the last of them threw;
\* sched: a sweep was queued; logged: a caught error went to console.error
Op(op, key, status, ret, calls, failed, sched, logged) ==
    [op |-> op, key |-> key, status |-> status, ret |-> ret, calls |-> calls,
     failed |-> failed, sched |-> sched, logged |-> logged]

CacheClosed == [name |-> "Cache is closed", fields |-> <<>>]
StorageFailure == [name |-> "SQLiteError", fields |-> <<>>]
DecodeFailure == [name |-> "decode", fields |-> <<>>]

NoEntry == [value |-> "none", deadline |-> NULL, compress |-> Undefined]

(***************************************************************************)
(* The prepared statements (index.ts 36-54), as functions of the table.    *)
(***************************************************************************)
EmptyTable == [k \in {} |-> Row(serialize("none"), NULL, 0, 0)]

\* variant of getStatement: the row is touched whether expired or not
getStatement_TouchExpired(table, key, t) ==
    IF key \in DOMAIN table
    THEN IF SqlGreater(table[key].expires, t) \/ table[key].expires = NULL
         THEN [found |-> TRUE, table |-> [table EXCEPT ![key].lastAccess = t],
               value |-> table[key].value, compressed |-> table[key].compressed]
         ELSE [found |-> FALSE, table |-> [table EXCEPT ![key].lastAccess = t],
               value |-> serialize("none"), compressed |-> 0]
    ELSE [found |-> FALSE, table |-> table,
          value |-> serialize("none"), compressed |-> 0]

\* variant of getStatement: the filter written expires >= $now
getStatement_Inclusive(table, key, t) ==
    IF key \in DOMAIN table
       /\ (~SqlLess(table[key].expires, t) \/ table[key].expires = NULL)
    THEN [found |-> TRUE, table |-> [table EXCEPT ![key].lastAccess = t],
          value |-> table[key].value, compressed |-> table[key].compressed]
    ELSE [found |-> FALSE, table |-> table,
          value |-> serialize("none"), compressed |-> 0]

\* UPDATE OR IGNORE cache SET lastAccess = $now
\*   WHERE key = $key AND (expires > $now OR expires IS NULL) RETURNING value, compressed
getStatement(table, key, t) ==
    IF key \in DOMAIN table
       /\ (SqlGreater(table[key].expires, t) \/ table[key].expires = NULL)
    THEN [found |-> TRUE, table |-> [table EXCEPT ![key].lastAccess = t],
          value |-> table[key].value, compressed |-> table[key].compressed]
    ELSE [found |-> FALSE, table |-> table,
          value |-> serialize("none"), compressed |-> 0]

\* variant of setStatement: INSERT OR IGNORE, an existing row stays
setStatement_Ignore(table, key, value, expires, t, compressed) ==
    [k \in DOMAIN table \cup {key} |->
        IF k \in DOMAIN table THEN table[k] ELSE Row(value, expires, t, compressed)]

\* INSERT OR REPLACE INTO cache (key, value, expires, lastAccess, compressed) VALUES (...)
setStatement(table, key, value, expires, t, compressed) ==
    [k \in DOMAIN table \cup {key} |->
        IF k = key THEN Row(value, expires, t, compressed) ELSE table[k]]

\* variant of deleteStatement: the key compared as a prefix pattern (LIKE 'k%')
deleteStatement_Like(table, key) == Restrict(table, {})

\* DELETE FROM cache WHERE key = $key
deleteStatement(table, key) == Restrict(table, DOMAIN table \ {key})

\* variant of clearStatement: only the rows that can expire are deleted
clearStatement_Expiring(table) ==
    Restrict(table, {k \in DOMAIN table : table[k].expires = NULL})

\* DELETE FROM cache
clearStatement(table) == EmptyTable

\* variant of cleanupExpiredStatement: the filter written expires <= $now
cleanupExpiredStatement_Inclusive(table, t) ==
    Restrict(table, {k \in DOMAIN table : table[k].expires = NULL
                                           \/ SqlGreater(table[k].expires, t)})

\* DELETE FROM cache WHERE expires < $now
cleanupExpiredStatement(table, t) ==
    Restrict(table, {k \in DOMAIN table : ~SqlLess(table[k].expires, t)})

\* WITH lru AS (SELECT key FROM cache ORDER BY lastAccess DESC LIMIT -1 OFFSET $maxItems)
\* DELETE FROM cache WHERE key IN lru
\* A negative OFFSET counts as 0.  Rows with equal lastAccess come in an order
\* SQL leaves open, so every order is possible: the result is a set of tables.
\* variant of Offset: one row too many is skipped
Offset_OneMore(n) == IF n < 0 THEN 0 ELSE n + 1

Offset(n) == IF n < 0 THEN 0 ELSE n

\* variant of LruKept: ORDER BY lastAccess ASC
LruKept_Ascending(table, maxItems) ==
    {keep \in SUBSET DOMAIN table :
        /\ Cardinality(keep) =
              IF Offset(maxItems) < Cardinality(DOMAIN table)
              THEN Offset(maxItems) ELSE Cardinality(DOMAIN table)
        /\ \A k \in keep, r \in DOMAIN table \ keep :
              table[k].lastAccess <= table[r].lastAccess}

LruKept(table, maxItems) ==
    {keep \in SUBSET DOMAIN table :
        /\ Cardinality(keep) =
              IF Offset(maxItems) < Cardinality(DOMAIN table)
              THEN Offset(maxItems) ELSE Cardinality(DOMAIN table)
        /\ \A k \in keep, r \in DOMAIN table \ keep :
              table[k].lastAccess >= table[r].lastAccess}

cleanupLruStatement(table, maxItems) ==
    {Restrict(table, keep) : keep \in LruKept(table, maxItems)}

(***************************************************************************)
(* constructor (index.ts 97-101)                                           *)
(***************************************************************************)
constructor ==
    /\ instance = "none"
    /\ LET parsed == parseConfig(configuration) IN
       IF parsed.threw
       THEN /\ instance' = "failed"
            /\ lastOp' = Op("constructor", "", "throw", parsed.error,
                            <<>>, FALSE, FALSE, FALSE)
            /\ UNCHANGED <<configuration, checkInterval>>
       ELSE /\ instance' = "live"
            /\ configuration' = parsed.config
            /\ checkInterval' = "active"
            /\ lastOp' = Op("constructor", "", "return", Undefined,
                            <<>>, FALSE, FALSE, FALSE)
    /\ UNCHANGED <<cache, isClosed, pending, now, lastSet>>

(***************************************************************************)
(* get (index.ts 112-134).  fail: the statement throws.                    *)
(***************************************************************************)
\* lines 124-133: what get makes of the row the statement returned
Decode(res, key, withMeta) ==
    LET unzipped == IF res.compressed # 0 THEN gunzipSync(res.value)
                    ELSE [threw |-> FALSE, buf |-> res.value]
        deserialized == deserialize(unzipped.buf)
    IN  IF unzipped.threw \/ deserialized.threw
        THEN [threw |-> TRUE, value |-> Undefined]
        ELSE IF withMeta
        THEN [threw |-> FALSE,
              value |-> [type |-> "meta",
                         val |-> [value |-> deserialized.value, key |-> key,
                                  compressed |-> (res.compressed = 1)]]]
        ELSE [threw |-> FALSE, value |-> deserialized.value]

get(key, withMeta, fail) ==
    /\ instance = "live"
    /\ IF isClosed
       THEN /\ lastOp' = Op("get", key, "throw", CacheClosed, <<>>, FALSE, FALSE, FALSE)
            /\ UNCHANGED cache
       ELSE IF fail
       THEN /\ lastOp' = Op("get", key, "throw", StorageFailure,
                            <<"getStatement">>, TRUE,
                            FALSE, FALSE)
            /\ UNCHANGED cache
       ELSE LET res == getStatement(cache, key, now) IN
            /\ cache' = res.table
            /\ IF ~res.found
               THEN lastOp' = Op("get", key, "return", Undefined,
                                 <<"getStatement">>, FALSE,
                                 FALSE, FALSE)
               ELSE LET out == Decode(res, key, withMeta) IN
                    lastOp' = Op("get", key, IF out.threw THEN "throw" ELSE "return",
                                 IF out.threw THEN DecodeFailure ELSE out.value,
                                 <<"getStatement">>, FALSE, FALSE, FALSE)
    /\ UNCHANGED <<instance, configuration, isClosed, checkInterval, pending, now,
                   lastSet>>

(***************************************************************************)
(* set (index.ts 146-189).  opts = {ttlMs, compress}; t2 is the second     *)
(* reading of the clock (line 177), not before the first (line 156).       *)
(***************************************************************************)
\* variant of Expires: the default TTL wins over the TTL of the call
Expires_DefaultFirst(ttlMs, t) ==
    LET ttl == Coalesce(configuration.defaultTtlMs, ttlMs) IN
    IF ttl.type # "undefined" THEN t + ttl.val ELSE NULL

\* lines 155-156 and 176: the expires column
Expires(ttlMs, t) ==
    LET ttl == Coalesce(ttlMs, configuration.defaultTtlMs) IN
    IF ttl.type # "undefined" THEN t + ttl.val ELSE NULL

\* variant of Compression: gzip output of the same length is kept
Compression_KeepTie(value, compress) ==
    LET compression == Coalesce(compress, Coalesce(configuration.compress, Bool(FALSE)))
        valueBuffer == serialize(value)
        compressed  == gzipSync(valueBuffer)
    IN  IF Truthy(compression) /\ ByteLength(valueBuffer) >= COMPRESSION_MIN_LENGTH
        THEN IF ByteLength(compressed) > ByteLength(valueBuffer)
             THEN [compression |-> FALSE, valueBuffer |-> valueBuffer]
             ELSE [compression |-> TRUE, valueBuffer |-> compressed]
        ELSE [compression |-> FALSE, valueBuffer |-> valueBuffer]

\* lines 157-169: which bytes are stored, and the compressed flag
Compression(value, compress) ==
    LET compression == Coalesce(compress, Coalesce(configuration.compress, Bool(FALSE)))
        valueBuffer == serialize(value)
        compressed  == gzipSync(valueBuffer)
    IN  IF Truthy(compression) /\ ByteLength(valueBuffer) >= COMPRESSION_MIN_LENGTH
        THEN IF ByteLength(compressed) >= ByteLength(valueBuffer)
             THEN [compression |-> FALSE, valueBuffer |-> valueBuffer]
             ELSE [compression |-> TRUE, valueBuffer |-> compressed]
        ELSE [compression |-> FALSE, valueBuffer |-> valueBuffer]

\* the history of the calls, not state of the program: what the caller was
\* promised by a set that returned true
Deadline(ttlMs, t) ==
    IF ttlMs.type # "undefined" THEN t + ttlMs.val
    ELSE IF configuration.defaultTtlMs.type # "undefined"
    THEN t + configuration.defaultTtlMs.val
    ELSE NULL

\* variant of setCatch: the error is not caught
setCatch_Rethrow(key) ==
    /\ lastOp' = Op("set", key, "throw", StorageFailure,
                    <<"setStatement">>, TRUE, TRUE, FALSE)
    /\ UNCHANGED <<cache, lastSet>>

\* lines 181-187: the statement threw
setCatch(key) ==
    /\ lastOp' = Op("set", key, "return", Bool(FALSE),
                    <<"setStatement">>, TRUE, TRUE, TRUE)
    /\ UNCHANGED <<cache, lastSet>>

\* variant of setImmediate: no sweep is queued
setImmediate_Dropped ==
    pending' = pending

\* line 170: one more sweep waits in the queue of the event loop
setImmediate ==
    pending' = pending + 1

set(key, value, ttlMs, compress, fail, t2) ==
    /\ instance = "live"
    /\ IF isClosed
       THEN /\ lastOp' = Op("set", key, "throw", CacheClosed, <<>>, FALSE, FALSE, FALSE)
            /\ UNCHANGED <<cache, pending, now, lastSet>>
       ELSE /\ pending < MaxPending
            /\ t2 >= now
            /\ now' = t2
            /\ setImmediate
            /\ IF fail
               THEN setCatch(key)
               ELSE LET stored == Compression(value, compress) IN
                    /\ cache' = setStatement(cache, key, stored.valueBuffer,
                                             Expires(ttlMs, now), t2,
                                             IF stored.compression THEN 1 ELSE 0)
                    /\ lastOp' = Op("set", key, "return", Bool(TRUE),
                                    <<"setStatement">>, FALSE,
                                    TRUE, FALSE)
                    /\ lastSet' = [lastSet EXCEPT
                                     ![key] = [value |-> value,
                                               deadline |-> Deadline(ttlMs, now),
                                               compress |-> compress]]
    /\ UNCHANGED <<instance, configuration, isClosed, checkInterval>>

(***************************************************************************)
(* delete (index.ts 197-202), clear (208-213), close (218-222)             *)
(***************************************************************************)
\* variant of delete: the isClosed check left out
delete_Unguarded(key, fail) ==
    /\ instance = "live"
    /\ IF fail
       THEN /\ lastOp' = Op("delete", key, "throw", StorageFailure,
                            <<"deleteStatement">>, TRUE,
                            FALSE, FALSE)
            /\ UNCHANGED <<cache, lastSet>>
       ELSE /\ cache' = deleteStatement(cache, key)
            /\ lastOp' = Op("delete", key, "return", Undefined,
                            <<"deleteStatement">>, FALSE,
                            FALSE, FALSE)
            /\ lastSet' = [lastSet EXCEPT ![key] = NoEntry]
    /\ UNCHANGED <<instance, configuration, isClosed, checkInterval, pending, now>>

delete(key, fail) ==
    /\ instance = "live"
    /\ IF isClosed
       THEN /\ lastOp' = Op("delete", key, "throw", CacheClosed,
                            <<>>, FALSE, FALSE, FALSE)
            /\ UNCHANGED <<cache, lastSet>>
       ELSE IF fail
       THEN /\ lastOp' = Op("delete", key, "throw", StorageFailure,
                            <<"deleteStatement">>, TRUE,
                            FALSE, FALSE)
            /\ UNCHANGED <<cache, lastSet>>
       ELSE /\ cache' = deleteStatement(cache, key)
            /\ lastOp' = Op("delete", key, "return", Undefined,
                            <<"deleteStatement">>, FALSE,
                            FALSE, FALSE)
            /\ lastSet' = [lastSet EXCEPT ![key] = NoEntry]
    /\ UNCHANGED <<instance, configuration, isClosed, checkInterval, pending, now>>

\* variant of clear: the error of the statement is swallowed
clear_Swallow(fail) ==
    /\ instance = "live"
    /\ IF isClosed
       THEN /\ lastOp' = Op("clear", "", "throw", CacheClosed,
                            <<>>, FALSE, FALSE, FALSE)
            /\ UNCHANGED <<cache, lastSet>>
       ELSE IF fail
       THEN /\ lastOp' = Op("clear", "", "return", Undefined,
                            <<"clearStatement">>, TRUE,
                            FALSE, FALSE)
            /\ UNCHANGED <<cache, lastSet>>
       ELSE /\ cache' = clearStatement(cache)
            /\ lastOp' = Op("clear", "", "return", Undefined,
                            <<"clearStatement">>, FALSE,
                            FALSE, FALSE)
            /\ lastSet' = [k \in Keys |-> NoEntry]
    /\ UNCHANGED <<instance, configuration, isClosed, checkInterval, pending, now>>

clear(fail) ==
    /\ instance = "live"
    /\ IF isClosed
       THEN /\ lastOp' = Op("clear", "", "throw", CacheClosed,
                            <<>>, FALSE, FALSE, FALSE)
            /\ UNCHANGED <<cache, lastSet>>
       ELSE IF fail
       THEN /\ lastOp' = Op("clear", "", "throw", StorageFailure,
                            <<"clearStatement">>, TRUE,
                            FALSE, FALSE)
            /\ UNCHANGED <<cache, lastSet>>
       ELSE /\ cache' = clearStatement(cache)
            /\ lastOp' = Op("clear", "", "return", Undefined,
                            <<"clearStatement">>, FALSE,
                            FALSE, FALSE)
            /\ lastSet' = [k \in Keys |-> NoEntry]
    /\ UNCHANGED <<instance, configuration, isClosed, checkInterval, pending, now>>

\* variant of close: the interval timer is left running
close_KeepsTimer ==
    /\ instance = "live"
    /\ isClosed' = TRUE
    /\ lastOp' = Op("close", "", "return", Undefined,
                    <<"db.close">>, FALSE, FALSE, FALSE)
    /\ UNCHANGED <<instance, configuration, cache, checkInterval, pending, now,
                   lastSet>>

close ==
    /\ instance = "live"
    /\ checkInterval' = "cleared"
    /\ isClosed' = TRUE
    /\ lastOp' = Op("close", "", "return", Undefined,
                    <<"db.close">>, FALSE, FALSE, FALSE)
    /\ UNCHANGED <<instance, configuration, cache, pending, now, lastSet>>

(***************************************************************************)
(* checkForExpiredItems (index.ts 224-245), run by the interval timer      *)
(* (line 100) and by the callbacks set queues (line 170).  failAt: the     *)
(* statement that throws, 1 or 2, or 0 when none does.                     *)
(***************************************************************************)
\* variant of sweepCatch: the error leaves the sweep
sweepCatch_Rethrow(by, calls) ==
    lastOp' = Op(by, "", "throw", StorageFailure, calls, TRUE, FALSE, FALSE)

\* lines 239-244: a statement of the sweep threw; the error is logged
sweepCatch(by, calls) ==
    lastOp' = Op(by, "", "return", Undefined, calls, TRUE, FALSE, TRUE)

checkForExpiredItems(by, failAt) ==
    IF isClosed
    THEN /\ lastOp' = Op(by, "", "return", Undefined, <<>>, FALSE, FALSE, FALSE)
         /\ UNCHANGED cache
    ELSE IF failAt = 1
    THEN /\ sweepCatch(by, <<"cleanupExpiredStatement">>)
         /\ UNCHANGED cache
    ELSE LET swept == cleanupExpiredStatement(cache, now) IN
         IF ~Truthy(configuration.maxItems)
         THEN /\ lastOp' = Op(by, "", "return", Undefined,
                              <<"cleanupExpiredStatement">>, FALSE,
                              FALSE, FALSE)
              /\ cache' = swept
         ELSE IF failAt = 2
         THEN /\ sweepCatch(by, <<"cleanupExpiredStatement", "cleanupLruStatement">>)
              /\ cache' = swept
         ELSE /\ lastOp' = Op(by, "", "return", Undefined,
                              <<"cleanupExpiredStatement", "cleanupLruStatement">>, FALSE,
                              FALSE, FALSE)
              /\ cache' \in cleanupLruStatement(swept, configuration.maxItems.val)

interval(failAt) ==
    /\ instance = "live"
    /\ checkInterval = "active"
    /\ checkForExpiredItems("interval", failAt)
    /\ UNCHANGED <<instance, configuration, isClosed, checkInterval, pending, now,
                   lastSet>>

immediate(failAt) ==
    /\ instance = "live"
    /\ pending > 0
    /\ pending' = pending - 1
    /\ checkForExpiredItems("immediate", failAt)
    /\ UNCHANGED <<instance, configuration, isClosed, checkInterval, now, lastSet>>

\* time passes between two handlers
tick ==
    /\ instance = "live"
    /\ now < MaxTime
    /\ now' = now + 1
    /\ lastOp' = Op("tick", "", "return", Undefined, <<>>, FALSE, FALSE, FALSE)
    /\ UNCHANGED <<instance, configuration, cache, isClosed, checkInterval, pending,
                   lastSet>>

(***************************************************************************)
(* The cache with the configurations and the arguments of its use.         *)
(***************************************************************************)
Bag(database, defaultTtlMs, maxItems, compress) ==
    [database |-> database, defaultTtlMs |-> defaultTtlMs, maxItems |-> maxItems,
     compress |-> compress]

\* no capacity bound: expiry, replacement, deletion, closing
Bags ==
    {Bag(Undefined, t, Undefined, Undefined) : t \in {Undefined, Num(1)}}

Fresh(bag) ==
    /\ instance = "none"
    /\ configuration = bag
    /\ cache = EmptyTable
    /\ isClosed = FALSE
    /\ checkInterval = "none"
    /\ pending = 0
    /\ now = 0
    /\ lastOp = Op("new", "", "return", Undefined, <<>>, FALSE, FALSE, FALSE)
    /\ lastSet = [k \in Keys |-> NoEntry]

Init == \E bag \in Bags : Fresh(bag)

Step(keys, values, ttls, compresses, metas) ==
    \/ constructor
    \/ \E key \in keys, withMeta \in metas, fail \in BOOLEAN : get(key, withMeta, fail)
    \/ \E key \in keys, value \in values, ttlMs \in ttls, compress \in compresses,
          fail \in BOOLEAN, t2 \in 0..MaxTime :
          set(key, value, ttlMs, compress, fail, t2)
    \/ \E key \in keys, fail \in BOOLEAN : delete(key, fail)
    \/ \E fail \in BOOLEAN : clear(fail)
    \/ close
    \/ \E failAt \in 0..2 : interval(failAt)
    \/ \E failAt \in 0..2 : immediate(failAt)
    \/ tick

Next == Step({"k1", "k2"}, {"tiny", "big"}, {Undefined, Num(1)}, {Undefined}, {FALSE})

Spec == Init /\ [][Next]_vars

\* a positive capacity bound: three keys for a bound of one or two
LruBags ==
    {Bag(Undefined, Undefined, m, Undefined) : m \in {Num(1), Num(2)}}

InitLru == \E bag \in LruBags : Fresh(bag)

NextLru == Step(Keys, {"tiny"}, {Undefined}, {Undefined}, {FALSE})

SpecLru == InitLru /\ [][NextLru]_vars

\* setInterval keeps firing while the cache is open, and a statement does not
\* fail forever: a sweep whose statements succeed is taken if it stays possible
FairSpecLru == SpecLru /\ WF_vars(interval(0))

\* one key with every option of set: a TTL of the call (none, 0, 1) beside
\* a default TTL, compression asked for or not
NextOne ==
    Step({"k1"}, {"tiny", "big"}, {Undefined, Num(0), Num(1)},
         {Undefined, Bool(TRUE)}, {FALSE})

SpecOne == Init /\ [][NextOne]_vars

\* a callback queued with setImmediate is run by the event loop: the queued
\* sweep is taken while one waits
FairSpecOne == SpecOne /\ WF_vars(\E failAt \in 0..2 : immediate(failAt))

\* a capacity bound of one beside expiry: two keys, with a TTL or without
LruTtlBags ==
    {Bag(Undefined, Undefined, Num(1), Undefined)}

InitLruTtl == \E bag \in LruTtlBags : Fresh(bag)

NextLruTtl == Step({"k1", "k2"}, {"tiny"}, {Undefined, Num(1)}, {Undefined}, {FALSE})

SpecLruTtl == InitLruTtl /\ [][NextLruTtl]_vars

\* compression: one key, values on both sides of the threshold and of the tie
CompressBags ==
    {Bag(Undefined, Undefined, Undefined, c) : c \in {Undefined, Bool(TRUE), Bool(FALSE)}}

InitCompress == \E bag \in CompressBags : Fresh(bag)

NextCompress ==
    Step({"k1"}, {"tiny", "below", "edge", "same", "grows", "big"}, {Undefined},
         {Undefined, Bool(TRUE), Bool(FALSE)}, BOOLEAN)

SpecCompress == InitCompress /\ [][NextCompress]_vars

\* construction: every field absent, of its type (truthy and falsy), or of
\* another type (truthy and falsy)
ConfigBags ==
    {Bag(d, t, m, c) :
        d \in {Undefined, Str("cache.db"), Str(""), Num(4), Num(0)},
        t \in {Undefined, Num(1), Num(0), Str("4"), Str("")},
        m \in {Undefined, Num(2), Num(0), Num(-1), Str("7"), Bool(FALSE)},
        c \in {Undefined, Bool(TRUE), Bool(FALSE), Str("false"), Num(0)}}

InitConfig == \E bag \in ConfigBags : Fresh(bag)

NextConfig == constructor

SpecConfig == InitConfig /\ [][NextConfig]_vars

(***************************************************************************)
(* Properties.                                                             *)
(***************************************************************************)
Returned(op) == lastOp.op = op /\ lastOp.status = "return"
PublicOps == {"get", "set", "delete", "clear"}
Sweeps == {"interval", "immediate"}
Count(table) == Cardinality(DOMAIN table)

\* C1: with no TTL in effect and no capacity bound, a get that returns gives
\* the value of the last set on its key that returned true and that no
\* delete of the key and no clear followed, and undefined when there is none,
\* whatever sweeps, other calls and clock ticks came in between.
C1_GetReturnsLastSet ==
    (/\ instance = "live"
     /\ configuration.defaultTtlMs = Undefined
     /\ configuration.maxItems = Undefined
     /\ Returned("get")
     /\ lastSet[lastOp.key].deadline = NULL)
    => lastOp.ret = IF lastSet[lastOp.key].value = "none" THEN Undefined
                    ELSE Obj(lastSet[lastOp.key].value)

\* a get at a later time gave back the value stored under its key, after the
\* sweeps queued by the writes had run
C1_Witness ==
    /\ Returned("get")
    /\ configuration.defaultTtlMs = Undefined
    /\ lastOp.ret = Obj("big")
    /\ lastOp.key \in DOMAIN cache
    /\ cache[lastOp.key].lastAccess > 0
    /\ pending = 0

\* C2: get never returns an expired entry: when the row under the key has an
\* expires that is not greater than the time of the get, the get returns
\* undefined, swept or not; and from the deadline t0 + T of the last set on
\* the key on, every get of the key returns undefined.
C2_NoExpiredRead ==
    Returned("get") =>
       /\ (/\ lastOp.key \in DOMAIN cache
           /\ cache[lastOp.key].expires # NULL
           /\ cache[lastOp.key].expires <= now) => lastOp.ret = Undefined
       /\ (/\ lastSet[lastOp.key].deadline # NULL
           /\ now >= lastSet[lastOp.key].deadline) => lastOp.ret = Undefined

\* a get at the very millisecond of the deadline, the row not swept, gave undefined
C2_Witness ==
    /\ Returned("get")
    /\ lastOp.ret = Undefined
    /\ lastOp.key \in DOMAIN cache
    /\ cache[lastOp.key].expires = now
    /\ lastSet[lastOp.key].deadline = now

\* C3: closed is terminal and guards every entry point: once isClosed is true
\* it stays true, and a get, set, delete or clear called then throws "Cache
\* is closed", runs no statement, queues no sweep and leaves the table alone.
C3_ClosedIsTerminal ==
    [][isClosed =>
          /\ isClosed'
          /\ lastOp'.op \in PublicOps =>
                /\ lastOp'.status = "throw"
                /\ lastOp'.ret = CacheClosed
                /\ lastOp'.calls = <<>>
                /\ ~lastOp'.sched
                /\ pending' = pending
                /\ cache' = cache]_vars

\* set was called on a closed cache on which nothing had been stored
C3_Witness ==
    /\ isClosed
    /\ lastOp.op = "set"
    /\ lastOp.status = "throw"
    /\ DOMAIN cache = {}

\* the capacity bound of a cache built with a positive maxItems
Bounded == instance = "live" /\ configuration.maxItems.type = "number"
              /\ configuration.maxItems.val >= 1
Bound == configuration.maxItems.val

\* a sweep ran its statements in this step and none of them threw
SweptClean == lastOp'.op \in Sweeps /\ lastOp'.calls # <<>> /\ ~lastOp'.failed

\* C4: LRU bound: with maxItems = N >= 1, a sweep that completes without a
\* failure on a table of N + M rows, none with an expiry, leaves exactly N of
\* them, unchanged, and no removed row has a later lastAccess than a row
\* that survives.
C4_LruBound ==
    [][(/\ Bounded
        /\ SweptClean
        /\ Count(cache) >= Bound
        /\ \A k \in DOMAIN cache : cache[k].expires = NULL)
       => /\ Count(cache') = Bound
          /\ DOMAIN cache' \subseteq DOMAIN cache
          /\ \A s \in DOMAIN cache' : cache'[s] = cache[s]
          /\ \A r \in DOMAIN cache \ DOMAIN cache', s \in DOMAIN cache' :
                cache[r].lastAccess <= cache[s].lastAccess]_vars

\* three keys were written, none was deleted, a queued sweep has run under
\* maxItems = 2 and two rows are left, the older of them read again later
C4_Witness ==
    /\ Bounded
    /\ Bound = 2
    /\ lastOp.op = "immediate"
    /\ ~lastOp.failed
    /\ \A k \in Keys : lastSet[k].value # "none"
    /\ DOMAIN cache = {"k1", "k3"}
    /\ cache["k1"].lastAccess > cache["k3"].lastAccess

\* C5: capacity is restored: on an open cache with maxItems = N >= 1, a sweep
\* that completes without a failure leaves at most N rows, and, the timer
\* firing fairly, a state with more than N rows leads to one with at most N
\* rows, unless the cache is closed first.
C5_CapacityRestored ==
    /\ [][(Bounded /\ SweptClean) => Count(cache') <= Bound]_vars
    /\ (Bounded /\ ~isClosed /\ Count(cache) > Bound)
          ~> (Count(cache) <= Bound \/ isClosed)

\* the timer found two rows more than maxItems = 1 allows and left one
C5_Witness ==
    /\ Bounded
    /\ Bound = 1
    /\ lastOp.op = "interval"
    /\ ~lastOp.failed
    /\ Count(cache) = 1
    /\ \A k \in Keys : lastSet[k].value # "none"
    /\ pending = 2

\* C6: set is best-effort: on an open cache set runs its statement and
\* returns, never throws; when the statement throws, set returns false and
\* every row, the one under its key too, is as before; when it does not
\* throw, set returns true and its row is in the table.
C6_SetBestEffort ==
    [][(~isClosed /\ lastOp'.op = "set") =>
          /\ lastOp'.status = "return"
          /\ lastOp'.calls = <<"setStatement">>
          /\ lastOp'.failed => (lastOp'.ret = Bool(FALSE) /\ cache' = cache)
          /\ ~lastOp'.failed => (/\ lastOp'.ret = Bool(TRUE)
                                 /\ lastOp'.key \in DOMAIN cache'
                                 /\ cache'[lastOp'.key].lastAccess = now')]_vars

\* a set that failed left the other value, stored before under its key
C6_Witness ==
    /\ Returned("set")
    /\ lastOp.ret = Bool(FALSE)
    /\ lastOp.key \in DOMAIN cache
    /\ cache[lastOp.key].value = serialize("tiny")
    /\ cache[lastOp.key].lastAccess < now
    /\ lastSet[lastOp.key].value = "tiny"

\* C7: delete(k) on an open cache removes the row under k and nothing else:
\* every other row keeps its four columns, deleting a key that is not stored
\* changes nothing and throws nothing, and get(k) returns undefined from
\* then on until a set on k returns true.
C7_DeleteFrame ==
    [][/\ (~isClosed /\ lastOp'.op = "delete" /\ lastOp'.calls # <<>>
              /\ ~lastOp'.failed)
          => /\ lastOp'.status = "return"
             /\ DOMAIN cache' = DOMAIN cache \ {lastOp'.key}
             /\ \A k \in DOMAIN cache' : cache'[k] = cache[k]
       /\ (lastOp'.op = "get" /\ lastOp'.status = "return"
              /\ lastSet'[lastOp'.key].value = "none")
          => lastOp'.ret = Undefined]_vars

\* a delete took one row and left another one, which has an expiry
C7_Witness ==
    /\ Returned("delete")
    /\ lastOp.key = "k1"
    /\ lastSet["k1"].value = "none"
    /\ DOMAIN cache = {"k2"}
    /\ cache["k2"].expires # NULL
    /\ lastSet["k2"].value = "big"

\* C8: clear() on an open cache removes every row and leaves the cache open,
\* its timer running; a row comes into the table only by a set on its key
\* that returns true, and a get of a key that has no row returns undefined.
C8_ClearRemovesAll ==
    [][/\ (~isClosed /\ lastOp'.op = "clear" /\ lastOp'.calls # <<>>
              /\ ~lastOp'.failed)
          => /\ lastOp'.status = "return"
             /\ DOMAIN cache' = {}
             /\ ~isClosed'
             /\ checkInterval' = "active"
       /\ \A k \in DOMAIN cache' \ DOMAIN cache :
             lastOp'.op = "set" /\ lastOp'.key = k /\ lastOp'.ret = Bool(TRUE)
       /\ (lastOp'.op = "get" /\ lastOp'.status = "return"
              /\ lastOp'.key \notin DOMAIN cache)
          => lastOp'.ret = Undefined]_vars

\* after a clear of rows with and without expiry, a get found nothing and
\* the cache is open
C8_Witness ==
    /\ Returned("get")
    /\ lastOp.ret = Undefined
    /\ ~isClosed
    /\ DOMAIN cache = {}
    /\ \A k \in Keys : lastSet[k].value = "none"
    /\ now > 0
    /\ pending = 2

\* the flag c of a set: opts.compress if given, else the configured compress,
\* else false; and the decision the claim states for a value
Requested(compress) ==
    IF compress.type # "undefined" THEN Truthy(compress)
    ELSE IF configuration.compress.type # "undefined" THEN Truthy(configuration.compress)
    ELSE FALSE

ShouldCompress(value, compress) ==
    /\ Requested(compress)
    /\ SerializedLength(value) >= 1024
    /\ GzipLength(value) < SerializedLength(value)

\* C9: compression decision: a set that returned true stored the gzip bytes
\* with compressed = 1 exactly when c is true, n >= 1024 and m < n, and
\* otherwise the serialized bytes with compressed = 0; get(k, true) reports
\* the stored flag, and gets the value back either way.
C9_CompressionDecision ==
    LET k == lastOp.key
        written == lastSet[k]
        should == ShouldCompress(written.value, written.compress)
    IN  /\ (Returned("set") /\ lastOp.ret = Bool(TRUE))
           => /\ cache[k].compressed = (IF should THEN 1 ELSE 0)
              /\ cache[k].value = [enc |-> IF should THEN "gzip" ELSE "v8",
                                   of |-> written.value]
        /\ (lastOp.op = "get" /\ lastOp.status = "throw") => lastOp.failed \/ isClosed
        /\ (Returned("get") /\ lastOp.ret.type = "meta")
           => /\ lastOp.ret.val.compressed = (cache[k].compressed = 1)
              /\ lastOp.ret.val.compressed = should
              /\ lastOp.ret.val.value = Obj(written.value)
              /\ lastOp.ret.val.key = k

\* compression was asked for a value of 1500 bytes that gzip leaves at 1500:
\* get(k, true) reports compressed false
C9_Witness ==
    /\ Returned("get")
    /\ lastOp.ret.type = "meta"
    /\ lastSet[lastOp.key].value = "same"
    /\ Requested(lastSet[lastOp.key].compress)
    /\ ~lastOp.ret.val.compressed

\* C10: configuration validation: construction throws the invalid-configuration
\* error exactly when a field is present with the wrong type (database not a
\* string, defaultTtlMs or maxItems not a number, compress not a boolean),
\* whatever the value, and the error names the offending fields, all of them
\* and only them, in order.
WrongType(x, t) == x.type # "undefined" /\ x.type # t

Offending(bag) ==
    (IF WrongType(bag.database, "string") THEN <<"'database'">> ELSE <<>>)
    \o (IF WrongType(bag.defaultTtlMs, "number") THEN <<"'defaultTtlMs'">> ELSE <<>>)
    \o (IF WrongType(bag.maxItems, "number") THEN <<"'maxItems'">> ELSE <<>>)
    \o (IF WrongType(bag.compress, "boolean") THEN <<"'compress'">> ELSE <<>>)

C10_ValidationComplete ==
    /\ instance = "live" => Offending(configuration) = <<>>
    /\ instance = "failed" =>
          /\ Offending(configuration) # <<>>
          /\ lastOp.ret = InvalidConfiguration(Offending(configuration))

(***************************************************************************)
(* C11: once the cache is closed no statement of the store is run: a sweep *)
(* that starts after close, whether run by the timer or queued by a set,   *)
(* returns without running a statement, without an error raised or logged  *)
(* and with the table as it was; the timer is cleared, so that no tick of  *)
(* it follows; get, set, delete and clear run no statement either.  close  *)
(* called again only closes the database once more.                        *)
(***************************************************************************)
C11_NoStoreAfterClose ==
    [][isClosed =>
          /\ checkInterval = "cleared"
          /\ lastOp'.op # "interval"
          /\ lastOp'.op # "close" => lastOp'.calls = <<>> /\ cache' = cache
          /\ lastOp'.op \in Sweeps =>
                /\ lastOp'.status = "return"
                /\ ~lastOp'.failed
                /\ ~lastOp'.logged]_vars

\* a sweep queued by a set ran after close and left an expired row in place
C11_Witness ==
    /\ isClosed
    /\ lastOp.op = "immediate"
    /\ lastOp.calls = <<>>
    /\ \E k \in DOMAIN cache : SqlLess(cache[k].expires, now)

(***************************************************************************)
(* C12: a get whose statement ran touches only what it returns.  When the  *)
(* key is stored and not expired at the time of the call, the row's        *)
(* lastAccess becomes that time and nothing else in the table changes;     *)
(* when the key is not stored, or its row is expired, get returns          *)
(* undefined and the table is left as it was, the lastAccess of the        *)
(* expired row included.  Nothing but the table is written.                *)
(***************************************************************************)
Readable(row, t) == row.expires = NULL \/ SqlGreater(row.expires, t)

C12_GetFrame ==
    [][lastOp'.op = "get" /\ lastOp'.calls # <<>> /\ ~lastOp'.failed =>
          LET k == lastOp'.key IN
          /\ IF k \in DOMAIN cache /\ Readable(cache[k], now)
             THEN /\ cache' = [cache EXCEPT ![k].lastAccess = now]
                  /\ lastOp'.ret # Undefined
             ELSE /\ cache' = cache
                  /\ lastOp'.ret = Undefined
          /\ UNCHANGED <<instance, configuration, isClosed, checkInterval,
                         pending, now, lastSet>>]_vars

\* get found the row of its key expired and did not touch it, beside a row
\* that an earlier get did touch
C12_Witness ==
    /\ Returned("get")
    /\ lastOp.ret = Undefined
    /\ lastOp.key \in DOMAIN cache
    /\ ~Readable(cache[lastOp.key], now)
    /\ cache[lastOp.key].lastAccess < now
    /\ \E k \in DOMAIN cache : Readable(cache[k], now) /\ cache[k].lastAccess = now

(***************************************************************************)
(* C13: every set on an open cache queues exactly one sweep beside the     *)
(* timer, whether its statement succeeds or throws; no other call queues   *)
(* or drops one, and a queued sweep runs as a step of its own after the    *)
(* set has written and returned, taking one sweep off the queue.  After a  *)
(* set that queued a sweep, a queued sweep eventually runs (the queued     *)
(* sweeps run the same code; after close the sweep returns at once).       *)
(***************************************************************************)
C13_SweepFollowsSet ==
    /\ [][/\ lastOp'.op = "set" /\ ~isClosed =>
                /\ pending' = pending + 1
                /\ lastOp'.sched
                /\ lastOp'.calls = <<"setStatement">>
          /\ lastOp'.op = "set" /\ isClosed => pending' = pending
          /\ lastOp'.op = "immediate" => pending > 0 /\ pending' = pending - 1
          /\ lastOp'.op \notin {"set", "immediate"} => pending' = pending]_vars
    /\ (lastOp.op = "set" /\ lastOp.sched) ~> (lastOp.op = "immediate")

\* a set whose statement threw returned false and its sweep is queued
C13_Witness ==
    /\ lastOp.op = "set"
    /\ lastOp.failed
    /\ lastOp.ret = Bool(FALSE)
    /\ lastOp.sched
    /\ pending > 0
    /\ ~isClosed

(***************************************************************************)
(* C14: a statement of the sweep that throws, the first or the second, is  *)
(* caught in the sweep: the sweep returns, the error is logged and reaches *)
(* no caller, the cache stays open or closed as it was and the timer stays *)
(* set; when the second statement throws the first has taken effect, when  *)
(* the first throws the table is as it was.  An open cache has its timer   *)
(* running whatever failed before, so later ticks run the sweep.           *)
(***************************************************************************)
C14_SweepFailureIsolated ==
    /\ [][lastOp'.op \in Sweeps /\ lastOp'.failed =>
             /\ lastOp'.status = "return"
             /\ lastOp'.ret = Undefined
             /\ lastOp'.logged
             /\ UNCHANGED <<instance, isClosed, checkInterval, lastSet>>
             /\ cache' = cleanupExpiredStatement(cache, now) \/ cache' = cache
             /\ ~isClosed' /\ checkInterval' = "active"]_vars
    /\ [](instance = "live" /\ ~isClosed => checkInterval = "active")

\* the capacity statement of a timer sweep threw on a table over its bound
C14_Witness ==
    /\ lastOp.op = "interval"
    /\ lastOp.failed
    /\ Len(lastOp.calls) = 2
    /\ Bounded
    /\ Count(cache) > Bound
    /\ ~isClosed
    /\ checkInterval = "active"

(***************************************************************************)
(* C15 as stated: a set that returned true at a time t leaves under its    *)
(* key one row with all four columns of this write: the bytes and the flag *)
(* of the compression decision, lastAccess = t, and expires = t + ttl for  *)
(* the ttl in effect (ttlMs of the call, else defaultTtlMs), NULL when     *)
(* neither is given; every other row is as it was.                         *)
(***************************************************************************)
WrittenRow(key, deadline, t) ==
    LET written == lastSet'[key]
        should == ShouldCompress(written.value, written.compress)
    IN  Row([enc |-> IF should THEN "gzip" ELSE "v8", of |-> written.value],
            deadline, t, IF should THEN 1 ELSE 0)

ReplacedOnly(key) ==
    /\ DOMAIN cache' = DOMAIN cache \cup {key}
    /\ \A j \in DOMAIN cache \ {key} : cache'[j] = cache[j]

SetSucceeded == lastOp'.op = "set" /\ lastOp'.ret = Bool(TRUE)

C15_ReplaceSemantics ==
    [][SetSucceeded =>
          LET k == lastOp'.key
              promised == lastSet'[k].deadline
          IN  /\ ReplacedOnly(k)
              /\ \E t \in now..now' :
                    cache'[k] = WrittenRow(k, IF promised = NULL THEN NULL
                                              ELSE t + (promised - now), t)]_vars

(***************************************************************************)
(* C15 amended: the same, with the two readings of the clock told apart:   *)
(* expires = t1 + ttl for t1 the reading when set computed the expiry,     *)
(* lastAccess = t2 for the reading when the statement ran, t1 <= t2.  A    *)
(* set without a TTL in effect over a row that had one leaves expires      *)
(* NULL.                                                                   *)
(***************************************************************************)
C15_ReplaceSemanticsTwoReadings ==
    [][SetSucceeded =>
          LET k == lastOp'.key IN
          /\ ReplacedOnly(k)
          /\ now <= now'
          /\ cache'[k] = WrittenRow(k, lastSet'[k].deadline, now')]_vars

\* the clock moved within a set with ttlMs 0 of a value that is compressed:
\* the row expires at the first reading and was last accessed at the second
C15_Witness ==
    /\ Returned("set")
    /\ lastOp.ret = Bool(TRUE)
    /\ cache[lastOp.key].compressed = 1
    /\ cache[lastOp.key].expires = lastSet[lastOp.key].deadline
    /\ cache[lastOp.key].lastAccess = now
    /\ SqlLess(cache[lastOp.key].expires, now)
    /\ configuration.defaultTtlMs # Undefined

(***************************************************************************)
(* C16 as stated: construction with a maxItems that is a number not above  *)
(* zero fails with the invalid-configuration error, so that the maxItems   *)
(* of every constructed cache is absent or positive.                       *)
(***************************************************************************)
C16_MaxItemsPositive ==
    (instance # "none" /\ configuration.maxItems.type = "number"
                       /\ configuration.maxItems.val <= 0)
       => /\ instance = "failed"
          /\ lastOp.status = "throw"
          /\ lastOp.ret.name = "Invalid configuration"

(***************************************************************************)
(* C17: on an open cache a statement of get, delete or clear that throws   *)
(* raises its error to the caller: the call does not return undefined or a *)
(* boolean in its place, nothing is logged, the cache stays open with its  *)
(* timer set, and the table is as it was.                                  *)
(***************************************************************************)
C17_FailuresPropagate ==
    [][lastOp'.op \in {"get", "delete", "clear"} /\ lastOp'.failed =>
          /\ ~isClosed
          /\ lastOp'.status = "throw"
          /\ lastOp'.ret = StorageFailure
          /\ ~lastOp'.logged
          /\ ~isClosed' /\ checkInterval' = "active"
          /\ UNCHANGED <<instance, configuration, cache, pending, now, lastSet>>]_vars

\* the statement of clear threw over a table that holds a row: the caller
\* has the error and the row is still there
C17_Witness ==
    /\ lastOp.op = "clear"
    /\ lastOp.failed
    /\ lastOp.status = "throw"
    /\ lastOp.ret = StorageFailure
    /\ ~isClosed
    /\ DOMAIN cache # {}

(***************************************************************************)
(* C18: without a capacity bound a row disappears only by delete of its    *)
(* key, by clear, or by a sweep at a time strictly later than its expires; *)
(* a row without expiry is removed by no sweep.  A row that stays changes  *)
(* its value, expiry or flag only by a set on its key that returned true,  *)
(* and its lastAccess besides only by a get of its key.                    *)
(***************************************************************************)
C18_NoSilentLoss ==
    [][configuration.maxItems = Undefined =>
          \A k \in DOMAIN cache :
             /\ k \notin DOMAIN cache' =>
                   \/ lastOp'.op = "delete" /\ lastOp'.key = k
                   \/ lastOp'.op = "clear"
                   \/ /\ lastOp'.op \in Sweeps
                      /\ cache[k].expires # NULL
                      /\ cache[k].expires < now
             /\ (k \in DOMAIN cache' /\ cache'[k] # cache[k]) =>
                   \/ /\ lastOp'.op = "set" /\ lastOp'.key = k
                      /\ lastOp'.ret = Bool(TRUE)
                   \/ /\ lastOp'.op = "get" /\ lastOp'.key = k
                      /\ cache'[k] = [cache[k] EXCEPT !.lastAccess = now]]_vars

\* a sweep removed the row that had expired and kept another row at the
\* very time of its expiry
C18_Witness ==
    /\ lastOp.op \in Sweeps
    /\ lastOp.calls # <<>>
    /\ ~lastOp.failed
    /\ \E k \in Keys : /\ k \notin DOMAIN cache
                       /\ SqlLess(lastSet[k].deadline, now)
    /\ \E k \in DOMAIN cache : cache[k].expires = now

(***************************************************************************)
(* C19 as stated: with a capacity bound, a sweep at time t does not evict  *)
(* in its capacity step a row that get would return at t while it keeps a  *)
(* row that get treats as expired at t (expires <= t), a row with          *)
(* expires = t included.  (A row the sweep removes while get would return  *)
(* it was removed by the capacity step: the expire step removes only rows  *)
(* with expires < t.)                                                      *)
(***************************************************************************)
C19_ExpiredNeverDisplaceLive ==
    [][Bounded /\ SweptClean =>
          ~ \E gone \in DOMAIN cache \ DOMAIN cache', kept \in DOMAIN cache' :
               /\ Readable(cache[gone], now)
               /\ ~Readable(cache[kept], now)]_vars

====
